---- MODULE Spec2Model ----
(***************************************************************************)
(* A model of vaka, a reactive state library: reactive() wraps an object   *)
(* in a Proxy whose set trap runs the watchers of the written property and *)
(* renders the bound elements; bind()/unbind() attach and detach elements; *)
(* watch() registers a watcher.                                            *)
(***************************************************************************)
EXTENDS Integers, Sequences, FiniteSets, TLC

(***************************************************************************)
(* JavaScript values.  Every value is a record of the same shape: k is the *)
(* kind (the typeof name, with "proxy" and "element" told apart from a raw *)
(* "object"), s the text of a string / the name of an element, n the       *)
(* identity of an object.                                                  *)
(***************************************************************************)
V(k, s, n) == [k |-> k, s |-> s, n |-> n]
Undefined == V("undefined", "", 0)
Null == V("null", "", 0)
Zero == V("number", "", 0)
False == V("boolean", "", 0)
Str(s) == V("string", s, 0)
Raw(o) == V("object", "", o)
Proxy(o) == V("proxy", "", o)
El(t) == V("element", t, 0)
PlainObject == V("object", "{}", 0)
REJECT_CHANGE == V("symbol", "VAKA_REJECT_CHANGE", 0)

\* The marker of a key that is not an own property of an object.
Absent == V("absent", "", 0)

IsObject(v) == v.k \in {"object", "proxy"} /\ v.n > 0

(***************************************************************************)
(* Bounds and input domains.                                               *)
(***************************************************************************)
\* The number of objects the caller may allocate.
MaxObjs == 3
\* The number of watchers registered on one property.
MaxWatchers == 2

Objs == 1..MaxObjs
Keys == {"foo", "nested", "x"}
\* The order in which keys were inserted into an object literal.
KeyOrder == <<"foo", "nested", "x">>

\* The elements of the document: a <div> and an <input>, whose ids are their names.
Elements == {"div", "input"}
InputElements == {"input"}

VARIABLES
    store,                  \* the own properties of every allocated object
    nobjs,                  \* the number of allocated objects
    proxy_to_bindings_map,  \* the registry of every Proxy created by reactive()
    element_lookup,         \* the binding record of every element
    listeners,              \* the 'input' event listener attached to every element
    dom,                    \* the value and innerText of every element
    last                    \* what the last operation did

vars == <<store, nobjs, proxy_to_bindings_map, element_lookup, listeners, dom, last>>

\* The mutable state the library's functions read and write, as one record;
\* effects lists, in order, the element updates and the property stores the
\* running operation has made.
World == [store |-> store, nobjs |-> nobjs,
          proxy_to_bindings_map |-> proxy_to_bindings_map,
          element_lookup |-> element_lookup, listeners |-> listeners, dom |-> dom,
          effects |-> <<>>]

NoObject == [key \in Keys |-> Absent]
NoPropertyState == [has |-> FALSE, bindings |-> {}, watchers |-> <<>>]
NewPropertyState == [has |-> TRUE, bindings |-> {}, watchers |-> <<>>]
NoMap == [has |-> FALSE, props |-> [key \in Keys |-> NoPropertyState]]
NewMap == [has |-> TRUE, props |-> [key \in Keys |-> NoPropertyState]]
NoHandler == [has |-> FALSE, base_state |-> Undefined, current_key |-> ""]
NoRecord == [has |-> FALSE, attached_handler |-> NoHandler,
             reactive_target |-> Undefined, reactive_key |-> ""]
Rendering(target, value) ==
    [ev |-> "render", element |-> target, obj |-> 0, key |-> "", value |-> value]
Storing(obj, key, value) ==
    [ev |-> "store", element |-> "", obj |-> obj, key |-> key, value |-> value]

(***************************************************************************)
(* Property reads.                                                         *)
(***************************************************************************)
\* obj[key]: a Proxy has no get trap, so a read goes to the wrapped object.
Get(M, obj, key) ==
    IF IsObject(obj) /\ key \in Keys /\ M.store[obj.n][key] # Absent
    THEN M.store[obj.n][key]
    ELSE Undefined

\* obj.hasOwnProperty(key), for an obj that is neither null nor undefined.
hasOwnProperty(M, obj, key) ==
    IsObject(obj) /\ key \in Keys /\ M.store[obj.n][key] # Absent

\* The string an element shows for a value assigned to value / innerText.
ToDOMString(value) ==
    CASE value.k = "string" -> value.s
      [] value.k = "null" -> ""
      [] value.k = "undefined" -> "undefined"
      [] value.k = "number" -> "0"
      [] value.k = "boolean" -> "false"
      [] OTHER -> "[object Object]"

update_target(M, target, value) ==
    IF target \in InputElements
    THEN [M EXCEPT !.dom[target].value = ToDOMString(value),
                   !.effects = Append(@, Rendering(target, value))]
    ELSE [M EXCEPT !.dom[target].innerText = ToDOMString(value),
                   !.effects = Append(@, Rendering(target, value))]

\* What the element shows: the attribute update_target writes.
Shown(d, target) ==
    IF target \in InputElements THEN d[target].value ELSE d[target].innerText

(***************************************************************************)
(* Errors.                                                                 *)
(***************************************************************************)
ERR_UNSUPPORTED_BIND == 1
ERR_NON_REACTIVE_STATE == 2
ERR_INVALID_OBJECT_PATH == 3
ERR_BAD_PROXY == 4
ERR_DUPLICATE_BINDING == 5
ERR_INVALID_ELEMENT_ID == 6

NoError == [name |-> "", code |-> 0, param |-> ""]
\* panic(code, ...params): throws a VakaError carrying the code and the parameter.
panic(code, param) == [name |-> "VakaError", code |-> code, param |-> param]
\* The TypeError the engine throws on a property access on null or undefined.
TypeError == [name |-> "TypeError", code |-> 0, param |-> ""]
\* The exception a watcher supplied by the caller throws.
WatcherError == [name |-> "WatcherError", code |-> 0, param |-> ""]

(***************************************************************************)
(* Path resolution.                                                        *)
(***************************************************************************)
\* property.split('.') for the property strings the callers use.
split(property) ==
    CASE property = "nested.x" -> <<"nested", "x">>
      [] property = "foo.x" -> <<"foo", "x">>
      [] property = "nested.missing.x" -> <<"nested", "missing", "x">>
      [] property = "foo.nested.x" -> <<"foo", "nested", "x">>
      [] property = "nested.nested.x" -> <<"nested", "nested", "x">>
      [] property = "nested.x.foo" -> <<"nested", "x", "foo">>
      [] property = "x.foo.x" -> <<"x", "foo", "x">>
      [] OTHER -> <<property>>

\* Mutant of resolve_walk: the last segment is checked with hasOwnProperty
\* as the segments before it are.
RECURSIVE resolve_walk_checking_leaf(_, _, _, _, _)
resolve_walk_checking_leaf(M, base_state, path_parts, i, property) ==
    IF base_state.k \in {"null", "undefined"}
    THEN [err |-> TypeError, base_state |-> base_state, current_key |-> ""]
    ELSE IF ~hasOwnProperty(M, base_state, path_parts[i])
    THEN [err |-> panic(ERR_INVALID_OBJECT_PATH, property),
          base_state |-> base_state, current_key |-> ""]
    ELSE IF i > Len(path_parts) - 1
    THEN [err |-> NoError, base_state |-> base_state,
          current_key |-> path_parts[Len(path_parts)]]
    ELSE resolve_walk_checking_leaf(M, Get(M, base_state, path_parts[i]),
                                    path_parts, i + 1, property)

RECURSIVE resolve_walk(_, _, _, _, _)
resolve_walk(M, base_state, path_parts, i, property) ==
    IF i > Len(path_parts) - 1
    THEN [err |-> NoError, base_state |-> base_state,
          current_key |-> path_parts[Len(path_parts)]]
    ELSE IF base_state.k \in {"null", "undefined"}
    THEN [err |-> TypeError, base_state |-> base_state, current_key |-> ""]
    ELSE IF ~hasOwnProperty(M, base_state, path_parts[i])
    THEN [err |-> panic(ERR_INVALID_OBJECT_PATH, property),
          base_state |-> base_state, current_key |-> ""]
    ELSE resolve_walk(M, Get(M, base_state, path_parts[i]), path_parts, i + 1, property)

resolve_object_property(M, target, property) ==
    resolve_walk(M, target, split(property), 1, property)

\* Mutant of state_meta_of: the registry is found by the wrapped object,
\* through the Proxy or not.
state_meta_of_wrapped_object(M, obj) ==
    IF IsObject(obj) THEN M.proxy_to_bindings_map[obj.n]
    ELSE [has |-> FALSE, props |-> [key \in Keys |->
             [has |-> FALSE, bindings |-> {}, watchers |-> <<>>]]]

\* proxy_to_bindings_map.get(obj): only a Proxy made by reactive() is a key.
state_meta_of(M, obj) ==
    IF obj.k = "proxy" THEN M.proxy_to_bindings_map[obj.n] ELSE NoMap

\* Mutant of get_property_state: the entry of a key is looked up and never
\* created; the lookup of a key without entry gives undefined.
get_property_state_without_set(state, key) == state

get_property_state(state, key) ==
    IF state.props[key].has THEN state
    ELSE [state EXCEPT !.props[key] = NewPropertyState]

(***************************************************************************)
(* Watchers: the callbacks the callers register.                           *)
(***************************************************************************)
\*   log:      (orig_value, new_value) => { console.log(...) }
\*   reject_b: (orig_value, new_value) => { if (new_value === 'b') return REJECT_CHANGE; }
\*   falsy:    (orig_value, new_value) => ({a: 0, b: '', c: false})[new_value]
\*   to_null:  (orig_value, new_value) => null
\*   throws:   (orig_value, new_value) => { throw new Error(); }
WatcherThrows(watcher, orig_value, new_value) == watcher = "throws"

WatcherReturn(watcher, orig_value, new_value) ==
    CASE watcher = "reject_b" ->
            IF new_value = Str("b") THEN REJECT_CHANGE ELSE Undefined
      [] watcher = "falsy" ->
            CASE new_value = Str("a") -> Zero
              [] new_value = Str("b") -> Str("")
              [] new_value = Str("c") -> False
              [] OTHER -> Undefined
      [] watcher = "to_null" -> Null
      [] OTHER -> Undefined

(***************************************************************************)
(* The set trap of the Proxy.                                              *)
(***************************************************************************)
\* The second argument a watcher is called with.
watcher_argument(value, new_value) == value

\* Mutants of apply_watcher_return: REJECT_CHANGE taken for no signal;
\* REJECT_CHANGE taken for a replacement value; a falsy return value taken
\* for no signal.
apply_watcher_return_ignoring_reject(new_value, orig_value, watcher_return) ==
    IF watcher_return # Undefined /\ watcher_return # REJECT_CHANGE
    THEN watcher_return
    ELSE new_value

apply_watcher_return_storing_reject(new_value, orig_value, watcher_return) ==
    IF watcher_return # Undefined THEN watcher_return ELSE new_value

apply_watcher_return_if_truthy(new_value, orig_value, watcher_return) ==
    IF watcher_return = REJECT_CHANGE THEN orig_value
    ELSE IF watcher_return \notin {Undefined, Null, Zero, False, Str("")}
    THEN watcher_return
    ELSE new_value

\* The proposed value after a watcher has returned watcher_return.
apply_watcher_return(new_value, orig_value, watcher_return) ==
    IF watcher_return = REJECT_CHANGE THEN orig_value
    ELSE IF watcher_return # Undefined THEN watcher_return
    ELSE new_value

\* Mutant of run_watchers: an exception thrown by a watcher is caught and
\* the loop goes on.
RECURSIVE run_watchers_catching(_, _, _, _, _, _)
run_watchers_catching(watchers, i, orig_value, value, new_value, calls) ==
    IF i > Len(watchers)
    THEN [threw |-> FALSE, new_value |-> new_value, calls |-> calls]
    ELSE LET arg == watcher_argument(value, new_value)
             returned == IF WatcherThrows(watchers[i], orig_value, arg) THEN Undefined
                         ELSE WatcherReturn(watchers[i], orig_value, arg)
         IN  run_watchers_catching(
                 watchers, i + 1, orig_value, value,
                 apply_watcher_return(new_value, orig_value, returned),
                 Append(calls, [watcher |-> watchers[i], orig_value |-> orig_value,
                                new_value |-> arg, returned |-> returned]))

\* The loop over property_state.watchers, from the i-th watcher on; calls is
\* the list of the invocations made so far.
RECURSIVE run_watchers(_, _, _, _, _, _)
run_watchers(watchers, i, orig_value, value, new_value, calls) ==
    IF i > Len(watchers)
    THEN [threw |-> FALSE, new_value |-> new_value, calls |-> calls]
    ELSE LET arg == watcher_argument(value, new_value)
             call == [watcher |-> watchers[i], orig_value |-> orig_value,
                      new_value |-> arg,
                      returned |-> WatcherReturn(watchers[i], orig_value, arg)]
         IN  IF WatcherThrows(watchers[i], orig_value, arg)
             THEN [threw |-> TRUE, new_value |-> new_value,
                   calls |-> Append(calls, [call EXCEPT !.returned = Undefined])]
             ELSE run_watchers(watchers, i + 1, orig_value, value,
                               apply_watcher_return(new_value, orig_value, call.returned),
                               Append(calls, call))

\* Mutant of binding_value: the elements are updated with the assigned value.
binding_value_assigned(value, new_value) == value

\* The value the bound elements are updated with.
binding_value(value, new_value) == new_value

\* Mutant of render_bindings: one binding set for all properties, so that
\* every element with a binding record is updated.
RECURSIVE render_bindings_everywhere(_, _, _)
render_bindings_everywhere(M, bindings, value) ==
    LET pending == {t \in Elements :
                       /\ M.element_lookup[t].has
                       /\ \A i \in 1..Len(M.effects) : M.effects[i].element # t}
    IN  IF pending = {} THEN M
        ELSE render_bindings_everywhere(
                 update_target(M, CHOOSE t \in pending : TRUE, value), bindings, value)

\* The loop over property_state.bindings.
RECURSIVE render_bindings(_, _, _)
render_bindings(M, bindings, value) ==
    IF bindings = {} THEN M
    ELSE LET binding == CHOOSE b \in bindings : TRUE
         IN  render_bindings(update_target(M, binding, value), bindings \ {binding}, value)

\* The outcome of an operation: the state it leaves, the error it throws (if
\* any), and what it did on the way.
Outcome(M, err) ==
    [M |-> M, err |-> err, orig_value |-> Undefined, new_value |-> Undefined,
     calls |-> <<>>]

proxy_handlers_set(M, receiver, property, value) ==
    LET state_meta == state_meta_of(M, receiver)
    IN  IF ~state_meta.has THEN Outcome(M, panic(ERR_BAD_PROXY, ""))
        ELSE
        LET target == Raw(receiver.n)
            state1 == get_property_state(state_meta, property)
            M1 == [M EXCEPT !.proxy_to_bindings_map[receiver.n] = state1]
            property_state == state1.props[property]
            orig_value == Get(M1, target, property)
            run == run_watchers(property_state.watchers, 1, orig_value, value, value, <<>>)
            shown_value == binding_value(value, run.new_value)
            M2 == render_bindings(M1, property_state.bindings, shown_value)
            M3 == [M2 EXCEPT !.store[receiver.n][property] = run.new_value,
                             !.effects = Append(@, Storing(receiver.n, property,
                                                           run.new_value))]
        IN  IF ~property_state.has THEN Outcome(M, TypeError)
            ELSE IF run.threw
            THEN [Outcome(M1, WatcherError) EXCEPT
                     !.orig_value = orig_value, !.calls = run.calls]
            ELSE [Outcome(M3, NoError) EXCEPT
                     !.orig_value = orig_value, !.new_value = run.new_value,
                     !.calls = run.calls]

(***************************************************************************)
(* reactive()                                                              *)
(***************************************************************************)
\* Mutant of wrap_entries: reactive() wraps the object it is given and none
\* of the objects nested in it.
wrap_entries_shallow(M, initial_state, entries, i) == M

RECURSIVE reactive(_, _)
RECURSIVE wrap_entries(_, _, _, _)
\* Mutant of reactive: the Proxy is made and the nested objects are wrapped,
\* and no registry is associated with the Proxy.
reactive_without_registry(M, initial_state) ==
    wrap_entries(M, initial_state, M.store[initial_state.n], 1)

\* reactive(initial_state) on the raw object initial_state; the Proxy it
\* returns is Proxy(initial_state.n).
reactive(M, initial_state) ==
    wrap_entries([M EXCEPT !.proxy_to_bindings_map[initial_state.n] = NewMap],
                 initial_state, M.store[initial_state.n], 1)

\* The loop over Object.entries(initial_state), from the i-th entry on.
wrap_entries(M, initial_state, entries, i) ==
    IF i > Len(KeyOrder) THEN M
    ELSE LET value == entries[KeyOrder[i]]
         IN  IF value.k = "object" /\ value.n > 0
             THEN wrap_entries(
                      [reactive(M, value) EXCEPT
                          !.store[initial_state.n][KeyOrder[i]] = Proxy(value.n)],
                      initial_state, entries, i + 1)
             ELSE wrap_entries(M, initial_state, entries, i + 1)

\* The object literals the callers pass to reactive(); Raw(j) inside a
\* literal is its j-th object.
LitFlat == << [foo |-> Str("bar"), nested |-> Absent, x |-> Absent] >>
LitNested == << [foo |-> Str("bar"), nested |-> Raw(2), x |-> Absent],
                [foo |-> Absent, nested |-> Absent, x |-> Zero] >>
LitDeep == << [foo |-> Str("bar"), nested |-> Raw(2), x |-> Absent],
              [foo |-> Absent, nested |-> Raw(3), x |-> Zero],
              [foo |-> Absent, nested |-> Absent, x |-> Null] >>

\* The object { x: 0 } a caller builds after the state was created.
LitLeaf == << [foo |-> Absent, nested |-> Absent, x |-> Zero] >>

\* The state after the caller has built the objects of a literal.
Allocate(M, literal) ==
    [M EXCEPT !.nobjs = M.nobjs + Len(literal),
              !.store = [o \in Objs |->
                  IF o > M.nobjs /\ o <= M.nobjs + Len(literal)
                  THEN [key \in Keys |->
                          LET value == literal[o - M.nobjs][key]
                          IN  IF value.k = "object" THEN Raw(M.nobjs + value.n)
                              ELSE value]
                  ELSE M.store[o]]]

(***************************************************************************)
(* bind(), unbind(), watch()                                               *)
(***************************************************************************)
\* document.getElementById(id)
getElementById(id) == IF id \in Elements THEN El(id) ELSE Null

\* element instanceof HTMLElement
IsHTMLElement(element) == element.k = "element"

\* The type name bind() reports for an unsupported target: typeof of the
\* identifier `target`, which bind() does not declare.
unsupported_target_type(element) == "undefined"

\* Mutant of has_binding_record: bind() without the duplicate check.
has_binding_record_unchecked(M, element) == FALSE

\* element_lookup.has(element)
has_binding_record(M, element) == M.element_lookup[element.s].has

\* Mutant of Handler: the closure writes to the wrapped object, not through
\* the Proxy.
Handler_on_raw_target(base_state, current_key) ==
    [has |-> TRUE, base_state |-> Raw(base_state.n), current_key |-> current_key]

\* The closure bind() attaches to an input element.
Handler(base_state, current_key) ==
    [has |-> TRUE, base_state |-> base_state, current_key |-> current_key]

\* Mutant of bind_register: bind() subscribes the element without rendering
\* the current value.
bind_register_without_render(M, element, base_state, current_key) ==
    LET t == element.s
        callback == IF t \in InputElements THEN Handler(base_state, current_key)
                    ELSE NoHandler
        M2 == IF t \in InputElements
              THEN [M EXCEPT !.listeners[t] = @ \cup {callback}]
              ELSE M
        state_meta == get_property_state(state_meta_of(M2, base_state), current_key)
        M3 == [M2 EXCEPT !.proxy_to_bindings_map[base_state.n] =
                  [state_meta EXCEPT !.props[current_key].bindings = @ \cup {t}]]
    IN  [M3 EXCEPT !.element_lookup[t] =
            [has |-> TRUE, attached_handler |-> callback,
             reactive_target |-> base_state, reactive_key |-> current_key]]

\* The part of bind() after the checks: render, listen, register, record.
bind_register(M, element, base_state, current_key) ==
    LET t == element.s
        M1 == update_target(M, t, Get(M, base_state, current_key))
        callback == IF t \in InputElements THEN Handler(base_state, current_key)
                    ELSE NoHandler
        M2 == IF t \in InputElements
              THEN [M1 EXCEPT !.listeners[t] = @ \cup {callback}]
              ELSE M1
        state_meta == get_property_state(state_meta_of(M2, base_state), current_key)
        M3 == [M2 EXCEPT !.proxy_to_bindings_map[base_state.n] =
                  [state_meta EXCEPT !.props[current_key].bindings = @ \cup {t}]]
    IN  [M3 EXCEPT !.element_lookup[t] =
            [has |-> TRUE, attached_handler |-> callback,
             reactive_target |-> base_state, reactive_key |-> current_key]]

\* Mutant of bind_element: the element is rendered with state[property]
\* before the checks.
bind_element_rendering_first(M, element, state, property) ==
    LET M0 == update_target(M, element.s, Get(M, state, property))
    IN  IF has_binding_record(M0, element)
        THEN Outcome(M0, panic(ERR_DUPLICATE_BINDING, ""))
        ELSE LET resolved == resolve_object_property(M0, state, property)
             IN  IF resolved.err # NoError THEN Outcome(M0, resolved.err)
                 ELSE IF ~state_meta_of(M0, resolved.base_state).has
                 THEN Outcome(M0, panic(ERR_NON_REACTIVE_STATE, ""))
                 ELSE Outcome(bind_register(M0, element, resolved.base_state,
                                            resolved.current_key), NoError)

\* bind() on an element that has passed the instanceof check.
bind_element(M, element, state, property) ==
    IF has_binding_record(M, element)
    THEN Outcome(M, panic(ERR_DUPLICATE_BINDING, ""))
    ELSE LET resolved == resolve_object_property(M, state, property)
         IN  IF resolved.err # NoError THEN Outcome(M, resolved.err)
             ELSE IF ~state_meta_of(M, resolved.base_state).has
             THEN Outcome(M, panic(ERR_NON_REACTIVE_STATE, ""))
             ELSE Outcome(bind_register(M, element, resolved.base_state,
                                        resolved.current_key), NoError)

bind(M, element, state, property) ==
    LET resolved_element ==
            IF element.k = "string" THEN getElementById(element.s) ELSE element
    IN  IF element.k = "string" /\ resolved_element = Null
        THEN Outcome(M, panic(ERR_INVALID_ELEMENT_ID, element.s))
        ELSE IF ~IsHTMLElement(resolved_element)
        THEN Outcome(M, panic(ERR_UNSUPPORTED_BIND,
                              unsupported_target_type(resolved_element)))
        ELSE bind_element(M, resolved_element, state, property)

\* Mutants of unbind_element: the listener is removed but the element stays
\* in the binding set; the element leaves the binding set but the listener
\* stays attached; the registry entry of the property is deleted with the
\* binding.
unbind_element_keeping_binding(M, t) ==
    LET element_meta == M.element_lookup[t]
    IN  Outcome(IF element_meta.attached_handler.has
                THEN [M EXCEPT !.listeners[t] = @ \ {element_meta.attached_handler}]
                ELSE M,
                NoError)

unbind_element_keeping_listener(M, t) ==
    LET element_meta == M.element_lookup[t]
        state_meta == state_meta_of(M, element_meta.reactive_target)
    IN  IF ~state_meta.has \/ ~state_meta.props[element_meta.reactive_key].has
        THEN Outcome(M, TypeError)
        ELSE Outcome(
                 [M EXCEPT !.proxy_to_bindings_map[element_meta.reactive_target.n]
                              .props[element_meta.reactive_key].bindings = @ \ {t}],
                 NoError)

unbind_element_deleting_entry(M, t) ==
    LET element_meta == M.element_lookup[t]
        state_meta == state_meta_of(M, element_meta.reactive_target)
    IN  IF ~state_meta.has \/ ~state_meta.props[element_meta.reactive_key].has
        THEN Outcome(M, TypeError)
        ELSE Outcome(
                 [M EXCEPT !.listeners[t] = @ \ {element_meta.attached_handler},
                           !.proxy_to_bindings_map[element_meta.reactive_target.n]
                               .props[element_meta.reactive_key] = NoPropertyState],
                 NoError)

\* unbind() on an element that has a binding record.
unbind_element(M, t) ==
    LET element_meta == M.element_lookup[t]
        M1 == IF element_meta.attached_handler.has
              THEN [M EXCEPT !.listeners[t] = @ \ {element_meta.attached_handler}]
              ELSE M
        state_meta == state_meta_of(M1, element_meta.reactive_target)
    IN  IF ~state_meta.has \/ ~state_meta.props[element_meta.reactive_key].has
        THEN Outcome(M1, TypeError)
        ELSE Outcome(
                 [M1 EXCEPT !.proxy_to_bindings_map[element_meta.reactive_target.n]
                               .props[element_meta.reactive_key].bindings = @ \ {t}],
                 NoError)

unbind(M, element) ==
    LET resolved_element ==
            IF element.k = "string" THEN getElementById(element.s) ELSE element
    IN  IF element.k = "string" /\ resolved_element = Null
        THEN Outcome(M, panic(ERR_INVALID_ELEMENT_ID, element.s))
        ELSE IF ~IsHTMLElement(resolved_element)
                \/ ~M.element_lookup[resolved_element.s].has
        THEN Outcome(M, NoError)
        ELSE unbind_element(M, resolved_element.s)

\* Mutant of watchers_add: a new watcher runs before the ones registered
\* earlier.
watchers_add_in_front(watchers, callback) ==
    IF \E i \in 1..Len(watchers) : watchers[i] = callback THEN watchers
    ELSE <<callback>> \o watchers

\* watchers.add(callback): a Set keeps insertion order and holds a value once.
watchers_add(watchers, callback) ==
    IF \E i \in 1..Len(watchers) : watchers[i] = callback THEN watchers
    ELSE Append(watchers, callback)

watch(M, state, property, callback) ==
    LET resolved == resolve_object_property(M, state, property)
    IN  IF resolved.err # NoError THEN Outcome(M, resolved.err)
        ELSE IF ~state_meta_of(M, resolved.base_state).has
        THEN Outcome(M, panic(ERR_NON_REACTIVE_STATE, ""))
        ELSE LET state_meta == get_property_state(
                     state_meta_of(M, resolved.base_state), resolved.current_key)
             IN  Outcome([M EXCEPT !.proxy_to_bindings_map[resolved.base_state.n] =
                             [state_meta EXCEPT !.props[resolved.current_key].watchers =
                                 watchers_add(@, callback)]],
                         NoError)

(***************************************************************************)
(* The 'input' event of an input element.                                  *)
(***************************************************************************)
\* The user types text into the element t: the element shows the text, then
\* every attached listener runs `base_state[current_key] = element.value`.
\* An exception thrown by a listener is reported by the browser and does not
\* stop the dispatch.
RECURSIVE dispatch_input(_, _, _)
dispatch_input(out, handlers, t) ==
    IF handlers = {} THEN out
    ELSE LET callback == CHOOSE h \in handlers : TRUE
             next == proxy_handlers_set(out.M, callback.base_state,
                                        callback.current_key,
                                        Str(out.M.dom[t].value))
         IN  dispatch_input([next EXCEPT !.calls = out.calls \o next.calls],
                            handlers \ {callback}, t)

input_event(M, t, text) ==
    dispatch_input(Outcome([M EXCEPT !.dom[t].value = text], NoError),
                   M.listeners[t], t)

(***************************************************************************)
(* The state machine.                                                      *)
(***************************************************************************)
\* The record of an operation in last; changed tells whether the operation
\* left anything different from what it found.  An operation that threw is
\* recorded by its name, the element it was given and the error.
Op(op, element, state, property, value, callback, out) ==
    IF out.err # NoError /\ out.calls = <<>>
    THEN [op |-> op, element |-> element, state |-> Undefined, property |-> "",
          value |-> Undefined, callback |-> "", err |-> out.err,
          orig_value |-> Undefined, new_value |-> Undefined,
          calls |-> <<>>, effects |-> <<>>,
          changed |-> [out.M EXCEPT !.effects = <<>>] # World]
    ELSE [op |-> op, element |-> element, state |-> state, property |-> property,
          value |-> value, callback |-> callback, err |-> out.err,
          orig_value |-> out.orig_value, new_value |-> out.new_value,
          calls |-> out.calls, effects |-> out.M.effects,
          changed |-> [out.M EXCEPT !.effects = <<>>] # World]

\* The operation leaves the state out.M and is recorded in last.
Becomes(out, op) ==
    /\ store' = out.M.store
    /\ nobjs' = out.M.nobjs
    /\ proxy_to_bindings_map' = out.M.proxy_to_bindings_map
    /\ element_lookup' = out.M.element_lookup
    /\ listeners' = out.M.listeners
    /\ dom' = out.M.dom
    /\ last' = op

Init ==
    /\ store = [o \in Objs |-> NoObject]
    /\ nobjs = 0
    /\ proxy_to_bindings_map = [o \in Objs |-> NoMap]
    /\ element_lookup = [t \in Elements |-> NoRecord]
    /\ listeners = [t \in Elements |-> {}]
    /\ dom = [t \in Elements |-> [value |-> "", innerText |-> ""]]
    /\ last = [op |-> "init", element |-> Undefined, state |-> Undefined,
               property |-> "", value |-> Undefined, callback |-> "",
               err |-> NoError, orig_value |-> Undefined, new_value |-> Undefined,
               calls |-> <<>>, effects |-> <<>>, changed |-> FALSE]

\* The references a caller can hold: every object it built and every Proxy.
States(M) ==
    {Raw(o) : o \in 1..M.nobjs}
        \cup {Proxy(o) : o \in {p \in 1..M.nobjs : M.proxy_to_bindings_map[p].has}}

\* state = reactive(literal)
Reactive(literals) ==
    \E literal \in literals :
        /\ nobjs + Len(literal) <= MaxObjs
        /\ LET out == Outcome(reactive(Allocate(World, literal), Raw(nobjs + 1)),
                              NoError)
           IN  Becomes(out, Op("reactive", Undefined, Proxy(nobjs + 1), "",
                               Undefined, "", out))

\* The object a caller reaches from state by reading the properties
\* parts[i], parts[i+1], ... but the last: state.a.b for the path a.b.c
RECURSIVE Container(_, _, _, _)
Container(M, state, parts, i) ==
    IF i > Len(parts) - 1 THEN state
    ELSE Container(M, Get(M, state, parts[i]), parts, i + 1)

\* state.a.b = value, where state.a is a Proxy: the assignment runs the set trap
Write(states, properties, values) ==
    \E state \in states \cap States(World), property \in properties, value \in values :
        LET parts == split(property)
            receiver == Container(World, state, parts, 1)
            out == proxy_handlers_set(World, receiver, parts[Len(parts)], value)
        IN  /\ state.k = "proxy"
            /\ receiver.k = "proxy"
            /\ Becomes(out, Op("set", Undefined, receiver, parts[Len(parts)], value,
                               "", out))

Bind(elements, states, properties) ==
    \E element \in elements, state \in states \cap States(World),
       property \in properties :
        LET out == bind(World, element, state, property)
        IN  Becomes(out, Op("bind", element, state, property, Undefined, "", out))

Unbind(elements) ==
    \E element \in elements :
        LET out == unbind(World, element)
        IN  Becomes(out, Op("unbind", element, Undefined, "", Undefined, "", out))

Watch(states, properties, callbacks) ==
    \E state \in states \cap States(World), property \in properties,
       callback \in callbacks :
        LET out == watch(World, state, property, callback)
        IN  /\ \A o \in Objs, key \in Keys :
                 Len(out.M.proxy_to_bindings_map[o].props[key].watchers) <= MaxWatchers
            /\ Becomes(out, Op("watch", Undefined, state, property, Undefined,
                               callback, out))

Input(elements, texts) ==
    \E t \in elements \cap InputElements, text \in texts :
        LET out == input_event(World, t, text)
        IN  Becomes(out, Op("input", El(t), Undefined, "", Str(text), "", out))

(***************************************************************************)
(* Spec: the life cycle of bindings, on flat and nested states.            *)
(***************************************************************************)
\* The references the caller keeps: the root object it built, the Proxy of
\* the root and the Proxy of the first nested object.
AllStates == {Raw(1), Proxy(1), Proxy(2)}
AllElements == {El(t) : t \in Elements}
Properties == {"foo", "nested.x", "nested.nested.x"}

DoReactive == Reactive({LitNested, LitDeep})
\* bind() on an element, and bind() on what is no element: an id the
\* document does not hold, null.
DoBind ==
    \/ Bind(AllElements, AllStates, Properties)
    \/ Bind({Str("missing"), Null}, {Proxy(1)}, {"foo"})
DoUnbind == Unbind(AllElements \cup {Str("missing")})
DoWrite == Write(AllStates, Properties, {Str("a")})

Next == DoReactive \/ DoBind \/ DoUnbind \/ DoWrite

Spec == Init /\ [][Next]_vars

(***************************************************************************)
(* SpecWatch: the watchers of one property of one flat state.              *)
(***************************************************************************)
Callbacks == {"log", "reject_b", "falsy", "to_null"}

WReactive == Reactive({LitFlat})
WWatch == Watch({Proxy(1)}, {"foo"}, Callbacks)
WBind == Bind(AllElements, {Proxy(1)}, {"foo"})
WWrite == Write({Proxy(1)}, {"foo"}, {Str("a"), Str("b")})
WInput == Input(Elements, {"b"})

NextWatch == WReactive \/ WWatch \/ WBind \/ WWrite \/ WInput

SpecWatch == Init /\ [][NextWatch]_vars

(***************************************************************************)
(* SpecNested: binds and writes through the paths of nested states.        *)
(***************************************************************************)
NReactive == Reactive({LitNested, LitDeep})
NBind == Bind(AllElements, {Raw(1), Proxy(1)}, Properties)
NWrite == Write({Proxy(1)}, Properties, {Str("a")})

NextNested == NReactive \/ NBind \/ NWrite

SpecNested == Init /\ [][NextNested]_vars

(***************************************************************************)
(* SpecEdit: edits of an input element, unbinds, and watchers that reject, *)
(* replace and throw, on one property of one flat state.                   *)
(***************************************************************************)
EditCallbacks == {"reject_b", "to_null", "throws"}

EReactive == Reactive({LitFlat})
EWatch == Watch({Proxy(1)}, {"foo"}, EditCallbacks)
EBind == Bind(AllElements, {Proxy(1)}, {"foo"})
EUnbind == Unbind(AllElements)
EWrite == Write({Proxy(1)}, {"foo"}, {Str("a")})
EInput == Input(Elements, {"b"})

NextEdit == EReactive \/ EWatch \/ EBind \/ EUnbind \/ EWrite \/ EInput

SpecEdit == Init /\ [][NextEdit]_vars

(***************************************************************************)
(* SpecReplace: a nested object is replaced by an object built later.      *)
(***************************************************************************)
\* obj[key] = value: the set trap runs when obj is a Proxy; the assignment
\* to an object that is no Proxy stores the value and runs no code of vaka.
assign(M, obj, key, value) ==
    IF obj.k = "proxy" THEN proxy_handlers_set(M, obj, key, value)
    ELSE [Outcome([M EXCEPT !.store[obj.n][key] = value], NoError) EXCEPT
             !.orig_value = Get(M, obj, key), !.new_value = value]

\* new_obj = { ... } or new_obj = reactive({ ... }), then state.key = new_obj
Replace(states, keys, literals) ==
    \E state \in states \cap States(World), key \in keys, literal \in literals,
       wrapped \in BOOLEAN :
        /\ state.k = "proxy"
        /\ nobjs + Len(literal) <= MaxObjs
        /\ LET built == Allocate(World, literal)
               new_obj == IF wrapped THEN Proxy(nobjs + 1) ELSE Raw(nobjs + 1)
               out == proxy_handlers_set(
                          IF wrapped THEN reactive(built, Raw(nobjs + 1)) ELSE built,
                          state, key, new_obj)
           IN  Becomes(out, Op("set", Undefined, state, key, new_obj, "", out))

\* state.a.b = value, where state.a is a Proxy or an object that is none
Assign(states, properties, values) ==
    \E state \in states \cap States(World), property \in properties, value \in values :
        LET parts == split(property)
            receiver == Container(World, state, parts, 1)
            out == assign(World, receiver, parts[Len(parts)], value)
        IN  /\ IsObject(receiver)
            /\ Becomes(out, Op(IF receiver.k = "proxy" THEN "set" ELSE "store",
                               Undefined, receiver, parts[Len(parts)], value, "", out))

ReplaceCallbacks == {"to_null"}
RReactive == Reactive({LitNested})
RWatch == Watch({Proxy(1)}, {"nested.x"}, ReplaceCallbacks)
RBind == Bind({El("div")}, {Proxy(1)}, {"nested.x"})
RReplace == Replace({Proxy(1)}, {"nested"}, {LitLeaf})
RWrite ==
    \/ Assign({Proxy(1)}, {"nested.x"}, {Str("a")})
    \/ Assign({Proxy(2)}, {"x"}, {Str("a")})

NextReplace == RReactive \/ RWatch \/ RBind \/ RReplace \/ RWrite

SpecReplace == Init /\ [][NextReplace]_vars

(***************************************************************************)
(* Vocabulary of the properties.                                           *)
(***************************************************************************)
\* Every Proxy reactive() has made.
Proxies(M) == {Proxy(o) : o \in {p \in 1..M.nobjs : M.proxy_to_bindings_map[p].has}}

\* The binding set and the watchers of the property key of the Proxy state.
Bindings(M, state, key) == M.proxy_to_bindings_map[state.n].props[key].bindings
WatchersOf(M, state, key) == M.proxy_to_bindings_map[state.n].props[key].watchers

\* The renderings of the element t by an operation, in order.
RenderedTo(effects, t) ==
    SelectSeq(effects, LAMBDA e : e.ev = "render" /\ e.element = t)

\* The element t is a member of the binding set its binding record names.
Bound(M, t) ==
    /\ M.element_lookup[t].has
    /\ t \in Bindings(M, M.element_lookup[t].reactive_target,
                      M.element_lookup[t].reactive_key)

\* The element t has been bound and then unbound.
Unbound(M, t) ==
    /\ M.element_lookup[t].has
    /\ t \notin Bindings(M, M.element_lookup[t].reactive_target,
                         M.element_lookup[t].reactive_key)

\* The element t is a member of no binding set.
InNoBindingSet(M, t) ==
    \A o \in Objs, key \in Keys : t \notin M.proxy_to_bindings_map[o].props[key].bindings

\* The values the properties quantify assignments over.
TestValues == {Str("a"), Str("b"), Str("c"), Null}
\* The states and paths the properties quantify bind() calls over.
TestStates == {Raw(o) : o \in Objs} \cup {Proxy(o) : o \in Objs}
TestProperties == Properties \cup {"x", "foo.x", "nested.missing.x"}

\* Every intermediate segment of the path is an own property, and the
\* container the path leads to is a Proxy of reactive().
Bindable(M, state, property) ==
    LET parts == split(property)
    IN  /\ state \in States(M)
        /\ \A i \in 1..(Len(parts) - 1) :
               LET holder == Container(M, state, SubSeq(parts, 1, i), 1)
               IN  /\ IsObject(holder) /\ parts[i] \in Keys
                   /\ M.store[holder.n][parts[i]] # Absent
        /\ Container(M, state, parts, 1) \in Proxies(M)

(***************************************************************************)
(* C1.  When a write W[k] = v through a Proxy completes, every element in  *)
(* the binding set of (W, k) has been rendered with the committed value,   *)
(* the value the write leaves stored under k, and shows it.                *)
(***************************************************************************)
C1_WriteRendersCommitted ==
    \A state \in Proxies(World), key \in Keys, value \in TestValues :
        LET out == proxy_handlers_set(World, state, key, value)
            committed == Get(out.M, state, key)
        IN  out.err = NoError =>
                \A t \in Bindings(out.M, state, key) :
                    /\ RenderedTo(out.M.effects, t) = <<Rendering(t, committed)>>
                    /\ Shown(out.M.dom, t) = ToDOMString(committed)

\* A write that a watcher transformed has rendered both bound elements.
C1_Witness ==
    /\ last.op = "set" /\ last.err = NoError
    /\ last.new_value # last.value
    /\ Bindings(World, last.state, last.property) = Elements
    /\ \A t \in Elements : RenderedTo(last.effects, t) = <<Rendering(t, last.new_value)>>
    /\ Get(World, last.state, last.property) = last.new_value

(***************************************************************************)
(* C2.  bind(t, S, path) on an element without binding record, with a      *)
(* resolvable path that leads to a reactive container, renders the current *)
(* value of container[leaf] to t exactly once, stores nothing, and adds t  *)
(* to the binding set of (container, leaf).                                *)
(***************************************************************************)
C2_BindRendersOnce ==
    \A t \in Elements, state \in TestStates, property \in TestProperties :
        (~World.element_lookup[t].has /\ Bindable(World, state, property)) =>
            LET parts == split(property)
                owner == Container(World, state, parts, 1)
                leaf == parts[Len(parts)]
                out == bind(World, El(t), state, property)
            IN  /\ out.err = NoError
                /\ out.M.effects = <<Rendering(t, Get(World, owner, leaf))>>
                /\ Shown(out.M.dom, t) = ToDOMString(Get(World, owner, leaf))
                /\ t \in Bindings(out.M, owner, leaf)
                /\ out.M.store = World.store

\* A bind through a nested path has rendered the current value once.
C2_Witness ==
    /\ last.op = "bind" /\ last.err = NoError /\ last.property = "nested.x"
    /\ last.effects = <<Rendering(last.element.s, Get(World, Proxy(2), "x"))>>
    /\ last.element.s \in Bindings(World, Proxy(2), "x")

(***************************************************************************)
(* C3.  With watchers [w1, w2] on a property, where w1 returns a           *)
(* replacement value v1 or REJECT_CHANGE, w2 is called with new_value      *)
(* equal to the proposed value after w1: v1, or the old value after a      *)
(* reject.                                                                 *)
(***************************************************************************)
C3_SecondWatcherSeesProposed ==
    (last.op \in {"set", "input"} /\ Len(last.calls) >= 2
        /\ last.calls[1].returned # Undefined) =>
            last.calls[2].new_value =
                IF last.calls[1].returned = REJECT_CHANGE
                THEN last.calls[1].orig_value
                ELSE last.calls[1].returned

\* The proposed value before the j-th watcher call of a write of value, as
\* the pipeline is specified: each return value acts on the proposed value.
RECURSIVE ProposedBefore(_, _, _)
ProposedBefore(calls, j, value) ==
    IF j = 1 THEN value
    ELSE IF calls[j - 1].returned = REJECT_CHANGE THEN calls[j - 1].orig_value
    ELSE IF calls[j - 1].returned # Undefined THEN calls[j - 1].returned
    ELSE ProposedBefore(calls, j - 1, value)

\* Every watcher of the write returned what it returns for the proposed
\* value: the write ran as it would have, had each watcher been called with
\* the proposed value (see C3).
RanAsSpecified(calls, value) ==
    \A j \in 1..Len(calls) :
        calls[j].returned =
            WatcherReturn(calls[j].watcher, calls[j].orig_value,
                          ProposedBefore(calls, j, value))

(***************************************************************************)
(* C4.  As stated: if any watcher of a write returns REJECT_CHANGE, the    *)
(* write commits the pre-write value and renders it to every bound         *)
(* element, whatever the other watchers return.  (Stated of the writes on  *)
(* which the argument the watchers are called with makes no difference.)   *)
(***************************************************************************)
C4_AnyRejectReverts ==
    (last.op = "set" /\ last.err = NoError
        /\ RanAsSpecified(last.calls, last.value)
        /\ \E i \in 1..Len(last.calls) : last.calls[i].returned = REJECT_CHANGE) =>
            /\ last.new_value = last.orig_value
            /\ Get(World, last.state, last.property) = last.orig_value
            /\ \A t \in Bindings(World, last.state, last.property) :
                   RenderedTo(last.effects, t) = <<Rendering(t, last.orig_value)>>

\* The last watcher call, if any, that returned something else than undefined.
RECURSIVE LastSignal(_, _)
LastSignal(calls, i) ==
    IF i = 0 THEN Undefined
    ELSE IF calls[i].returned # Undefined THEN calls[i].returned
    ELSE LastSignal(calls, i - 1)

(***************************************************************************)
(* C4, amended.  If a watcher of a write returns REJECT_CHANGE and no      *)
(* watcher registered after it returns a value other than undefined, the   *)
(* write commits the pre-write value and renders it to every bound element.*)
(***************************************************************************)
C4_LastRejectReverts ==
    \A state \in Proxies(World), key \in Keys, value \in TestValues :
        LET out == proxy_handlers_set(World, state, key, value)
            orig_value == Get(World, state, key)
        IN  (out.err = NoError /\ LastSignal(out.calls, Len(out.calls)) = REJECT_CHANGE) =>
                /\ out.new_value = orig_value
                /\ Get(out.M, state, key) = orig_value
                /\ \A t \in Bindings(out.M, state, key) :
                       /\ RenderedTo(out.M.effects, t) = <<Rendering(t, orig_value)>>
                       /\ Shown(out.M.dom, t) = ToDOMString(orig_value)

\* A write whose first watcher replaced the value and whose second watcher
\* rejected it has rendered the old value to a bound element.
C4_Witness ==
    /\ last.op = "set" /\ last.err = NoError /\ Len(last.calls) = 2
    /\ last.calls[1].returned = Null
    /\ last.calls[2].returned = REJECT_CHANGE
    /\ last.orig_value # last.value
    /\ Get(World, last.state, last.property) = last.orig_value
    /\ \E t \in Elements : RenderedTo(last.effects, t) = <<Rendering(t, last.orig_value)>>

(***************************************************************************)
(* C5.  When the only watcher of (W, k) returns REJECT_CHANGE for a write  *)
(* W[k] = v, the write throws nothing, W[k] keeps its prior value, and     *)
(* every bound element is rendered with the prior value and only with it.  *)
(***************************************************************************)
C5_SingleRejectKeepsValue ==
    \A state \in Proxies(World), key \in Keys, value \in TestValues :
        LET out == proxy_handlers_set(World, state, key, value)
            orig_value == Get(World, state, key)
            watchers == WatchersOf(World, state, key)
        IN  (Len(watchers) = 1
                /\ ~WatcherThrows(watchers[1], orig_value, value)
                /\ WatcherReturn(watchers[1], orig_value, value) = REJECT_CHANGE) =>
                /\ out.err = NoError
                /\ Get(out.M, state, key) = orig_value
                /\ \A t \in Bindings(out.M, state, key) :
                       /\ \A i \in 1..Len(RenderedTo(out.M.effects, t)) :
                              RenderedTo(out.M.effects, t)[i].value = orig_value
                       /\ RenderedTo(out.M.effects, t) # <<>>
                       /\ Shown(out.M.dom, t) = ToDOMString(orig_value)

\* A write of 'b' over another value, rejected by the only watcher, with a
\* bound element.
C5_Witness ==
    /\ last.op = "set" /\ last.err = NoError /\ Len(last.calls) = 1
    /\ last.calls[1].returned = REJECT_CHANGE
    /\ last.value # last.orig_value
    /\ Get(World, last.state, last.property) = last.orig_value
    /\ \E t \in Bindings(World, last.state, last.property) :
           /\ RenderedTo(last.effects, t) = <<Rendering(t, last.orig_value)>>
           /\ Shown(dom, t) = ToDOMString(last.orig_value)

\* The arguments the properties quantify bind() and unbind() calls over.
TestElements == AllElements \cup {Str(t) : t \in Elements}

(***************************************************************************)
(* C6.  bind() on an element that has an active binding throws             *)
(* ERR_DUPLICATE_BINDING, whichever state and path it names (the same      *)
(* ones, others, an unresolvable path, a state that is not reactive), and  *)
(* changes nothing: the element stays in the binding set of the first      *)
(* property and in no other, a write to the first property renders it and  *)
(* a write to another property does not.                                   *)
(***************************************************************************)
C6_DuplicateBindRefused ==
    \A t \in Elements :
        Bound(World, t) =>
            LET first == World.element_lookup[t]
            IN  /\ \A state \in TestStates, property \in TestProperties :
                       LET out == bind(World, El(t), state, property)
                       IN  /\ out.err = panic(ERR_DUPLICATE_BINDING, "")
                           /\ out.M = World
                /\ \A other \in Proxies(World), key \in Keys :
                       LET write == proxy_handlers_set(World, other, key, Str("c"))
                       IN  (RenderedTo(write.M.effects, t) # <<>>) <=>
                               (other = first.reactive_target /\ key = first.reactive_key)

\* A bind has been refused as a duplicate on an element that is bound, in a
\* state where a second bind could name the same property, another
\* property, an unresolvable path or a state that is not reactive.
C6_Witness ==
    /\ last.op = "bind" /\ last.err = panic(ERR_DUPLICATE_BINDING, "")
    /\ last.element.k = "element" /\ Bound(World, last.element.s)
    /\ \E state \in States(World), property \in Properties :
           resolve_object_property(World, state, property).err
               = panic(ERR_INVALID_OBJECT_PATH, property)
    /\ \E state \in States(World) :
           /\ Bindable(World, state, "nested.x")
           /\ World.element_lookup[last.element.s].reactive_key = "foo"
    /\ Raw(1) \in States(World)

(***************************************************************************)
(* C7.  After bind(t, ...) and unbind(t) the binding record of t is        *)
(* discarded: a following bind(t, S2, p2) is not refused as a duplicate.   *)
(* Stated as: no bind() is refused with ERR_DUPLICATE_BINDING on an        *)
(* element that is a member of no binding set.                             *)
(***************************************************************************)
C7_RebindAfterUnbind ==
    ~(/\ last.op = "bind"
      /\ last.err = panic(ERR_DUPLICATE_BINDING, "")
      /\ last.element.k = "element"
      /\ InNoBindingSet(World, last.element.s))

(***************************************************************************)
(* C8.  After unbind(t), on a bound element or not, by element or by id,   *)
(* no write to any property of any Proxy renders a value to t: t keeps     *)
(* showing what it showed before the unbind, and stays out of every        *)
(* binding set.                                                            *)
(***************************************************************************)
C8_NoRenderAfterUnbind ==
    \A element \in TestElements :
        LET t == element.s
            unbound == unbind(World, element)
        IN  /\ unbound.err = NoError
            /\ unbound.M.dom[t] = World.dom[t]
            /\ \A state \in Proxies(World), key \in Keys :
                   LET out == proxy_handlers_set(unbound.M, state, key, Str("c"))
                   IN  /\ RenderedTo(out.M.effects, t) = <<>>
                       /\ out.M.dom[t] = World.dom[t]
                       /\ InNoBindingSet(out.M, t)

\* A write to the property an element was bound to, after its unbind, has
\* changed the stored value and left the element showing the old one.
C8_Witness ==
    \E t \in Elements :
        /\ Unbound(World, t)
        /\ last.op = "set" /\ last.err = NoError
        /\ last.state = element_lookup[t].reactive_target
        /\ last.property = element_lookup[t].reactive_key
        /\ last.new_value # last.orig_value
        /\ Shown(dom, t) = ToDOMString(last.orig_value)
        /\ RenderedTo(last.effects, t) = <<>>

(***************************************************************************)
(* C9.  unbind(t) on an element that was never bound, or that has been     *)
(* unbound, throws nothing and leaves every binding set, binding record,   *)
(* listener, stored value and shown value as it was; so does a second      *)
(* unbind(t) after any unbind(t).                                          *)
(***************************************************************************)
C9_UnbindIsIdempotent ==
    \A element \in TestElements :
        LET t == element.s
            once == unbind(World, element)
            twice == unbind(once.M, element)
        IN  /\ (~World.element_lookup[t].has \/ Unbound(World, t)) =>
                   (once.err = NoError /\ once.M = World)
            /\ once.err = NoError
            /\ twice.err = NoError /\ twice.M = once.M

\* An unbind of an element that was never bound, and one of an element that
\* had been unbound before, have returned.
C9_Witness ==
    /\ last.op = "unbind" /\ last.err = NoError /\ last.element = El("input")
    /\ ~last.changed
    /\ Unbound(World, "input")
    /\ ~element_lookup["div"].has
    /\ unbind(World, El("div")) = Outcome(World, NoError)

(***************************************************************************)
(* C10.  A watcher return value other than undefined and REJECT_CHANGE,    *)
(* null, 0, false and '' included, becomes the proposed value; undefined   *)
(* leaves it unchanged.  With a single watcher the write commits the       *)
(* returned value, or the assigned value when the watcher returns          *)
(* undefined; with several, it commits the value the last watcher returns  *)
(* when that is neither undefined nor REJECT_CHANGE.                       *)
(***************************************************************************)
C10_ReturnValueReplaces ==
    \A state \in Proxies(World), key \in Keys, value \in TestValues :
        LET out == proxy_handlers_set(World, state, key, value)
            watchers == WatchersOf(World, state, key)
            n == Len(watchers)
            returned == out.calls[n].returned
        IN  (n >= 1 /\ out.err = NoError) =>
                /\ Len(out.calls) = n
                /\ (n = 1) =>
                       returned = WatcherReturn(watchers[1], Get(World, state, key), value)
                /\ (returned \notin {Undefined, REJECT_CHANGE}) =>
                       (out.new_value = returned /\ Get(out.M, state, key) = returned)
                /\ (n = 1 /\ returned = Undefined) =>
                       (out.new_value = value /\ Get(out.M, state, key) = value)

\* Writes with a single watcher have committed null, 0 and '' in place of
\* the assigned value, and the assigned value when the watcher returned
\* undefined.
C10_Witness ==
    /\ last.op = "set" /\ last.err = NoError /\ Len(last.calls) = 1
    /\ last.calls[1].returned = Str("")
    /\ last.value = Str("b")
    /\ Get(World, last.state, last.property) = Str("")
    /\ \E t \in Elements : RenderedTo(last.effects, t) = <<Rendering(t, Str(""))>>
    /\ proxy_handlers_set(World, last.state, last.property, Str("a")).new_value = Zero
    /\ proxy_handlers_set(World, last.state, last.property, Str("c")).new_value = False
    /\ proxy_handlers_set(World, last.state, last.property, Null).new_value = Null

(***************************************************************************)
(* C11.  reactive(initial_state) replaces every own property of            *)
(* initial_state that holds a non-null object, at any depth, by a Proxy    *)
(* with a registry of its own.  For every Proxy S and key k under which S  *)
(* holds such a Proxy: watch and bind on the path k.x succeed, and the     *)
(* write S[k].x = v runs the watcher registered on, and renders the        *)
(* element bound to, (S[k], x).                                            *)
(***************************************************************************)
C11_NestedObjectsAreReactive ==
    /\ \A literal \in {LitNested, LitDeep} :
           nobjs + Len(literal) <= MaxObjs =>
               LET M == reactive(Allocate(World, literal), Raw(nobjs + 1))
               IN  \A j \in 1..Len(literal), key \in Keys :
                       literal[j][key].k = "object" =>
                           /\ M.store[nobjs + j][key] = Proxy(nobjs + literal[j][key].n)
                           /\ M.proxy_to_bindings_map[nobjs + literal[j][key].n].has
    /\ \A state \in Proxies(World), key \in Keys, t \in Elements :
           LET inner == Get(World, state, key)
               watched == watch(World, state, key \o ".x", "to_null")
               bound == bind(watched.M, El(t), state, key \o ".x")
               write == proxy_handlers_set([bound.M EXCEPT !.effects = <<>>],
                                           inner, "x", Str("c"))
           IN  (IsObject(inner) /\ ~World.element_lookup[t].has) =>
                   /\ inner \in Proxies(World)
                   /\ watched.err = NoError /\ bound.err = NoError
                   /\ WatchersOf(watched.M, inner, "x")
                          = Append(WatchersOf(World, inner, "x"), "to_null")
                   /\ t \in Bindings(bound.M, inner, "x")
                   /\ write.err = NoError
                   /\ write.calls[Len(write.calls)].watcher = "to_null"
                   /\ Get(write.M, inner, "x") = Null
                   /\ RenderedTo(write.M.effects, t) = <<Rendering(t, Null)>>

\* In a state nested two levels deep, a write through the path
\* nested.nested.x has rendered an element bound through that path.
C11_Witness ==
    /\ last.op = "set" /\ last.err = NoError
    /\ last.state = Proxy(3) /\ last.property = "x"
    /\ Get(World, Proxy(1), "nested") = Proxy(2)
    /\ Get(World, Proxy(2), "nested") = Proxy(3)
    /\ \E t \in Bindings(World, Proxy(3), "x") :
           RenderedTo(last.effects, t) = <<Rendering(t, Str("a"))>>

(***************************************************************************)
(* C12.  After state.nested = new_obj, with new_obj = { x: 0 } built by    *)
(* the caller, state.nested is a Proxy with a registry,                    *)
(* bind(t, state, 'nested.x') succeeds, and the write state.nested.x = v   *)
(* renders v to t.                                                         *)
(***************************************************************************)
C12_AssignedObjectIsReactive ==
    \A state \in Proxies(World), t \in Elements :
        (nobjs + Len(LitLeaf) <= MaxObjs /\ ~World.element_lookup[t].has) =>
            LET new_obj == Raw(nobjs + 1)
                assigned == proxy_handlers_set(Allocate(World, LitLeaf), state,
                                               "nested", new_obj)
                holder == Get(assigned.M, state, "nested")
                bound == bind(assigned.M, El(t), state, "nested.x")
                write == proxy_handlers_set([bound.M EXCEPT !.effects = <<>>],
                                            holder, "x", Str("c"))
            IN  /\ assigned.err = NoError
                /\ holder \in Proxies(assigned.M)
                /\ bound.err = NoError
                /\ write.err = NoError
                /\ RenderedTo(write.M.effects, t) = <<Rendering(t, Str("c"))>>

\* The paths the properties quantify bind() and watch() calls over, and the
\* states: every reference the caller holds, and null.
PathProperties == TestProperties \cup {"foo.nested.x", "nested.x.foo", "x.foo.x"}
PathStates(M) == States(M) \cup {Null}

\* Some segment of the path other than the last is not an own property of
\* the container reached so far (null and undefined have no own property).
SegmentMissing(M, state, parts) ==
    \E i \in 1..(Len(parts) - 1) :
        LET holder == Container(M, state, SubSeq(parts, 1, i), 1)
        IN  ~(/\ IsObject(holder) /\ parts[i] \in Keys
              /\ M.store[holder.n][parts[i]] # Absent)

(***************************************************************************)
(* C14.  watch(), and bind() on an element without binding record, throw   *)
(* ERR_INVALID_OBJECT_PATH with the full path string exactly when some     *)
(* segment other than the last is not an own property of the container     *)
(* reached so far; with a path without a dot they never do.                *)
(***************************************************************************)
C14_InvalidPathIffSegmentMissing ==
    \A state \in States(World), property \in PathProperties :
        LET missing == SegmentMissing(World, state, split(property))
            invalid == panic(ERR_INVALID_OBJECT_PATH, property)
        IN  /\ (watch(World, state, property, "log").err = invalid) <=> missing
            /\ \A t \in Elements :
                   ~World.element_lookup[t].has =>
                       ((bind(World, El(t), state, property).err = invalid) <=> missing)
            /\ Len(split(property)) = 1 => ~missing

(***************************************************************************)
(* C15.  For a state whose property nested holds an object whose property  *)
(* x holds a primitive value, bind(t, state, 'nested.x.foo') on an element *)
(* without binding record throws the code ERR_INVALID_OBJECT_PATH.         *)
(***************************************************************************)
C15_LeafBelowPrimitiveIsInvalidPath ==
    \A state \in Proxies(World), t \in Elements :
        LET held == Get(World, Get(World, state, "nested"), "x")
        IN  (/\ ~World.element_lookup[t].has
             /\ hasOwnProperty(World, Get(World, state, "nested"), "x")
             /\ held.k \in {"string", "number", "boolean"}) =>
                bind(World, El(t), state, "nested.x.foo").err.code
                    = ERR_INVALID_OBJECT_PATH

\* The arguments the properties quantify failing bind() calls over: the
\* elements, their ids, an id the document does not hold, null and an object
\* that is no element.
BindTargets == TestElements \cup {Str("missing"), Null, PlainObject}

C17_FailedBindChangesNothing ==
    \A element \in BindTargets, state \in PathStates(World),
       property \in PathProperties :
        LET out == bind(World, element, state, property)
        IN  out.err # NoError => out.M = World

\* A bind has failed and changed nothing, in a state in which bind() can
\* fail with each of its errors.
C17_Witness ==
    /\ last.op = "bind" /\ last.err # NoError /\ ~last.changed
    /\ \A code \in {ERR_UNSUPPORTED_BIND, ERR_NON_REACTIVE_STATE,
                     ERR_INVALID_OBJECT_PATH, ERR_DUPLICATE_BINDING,
                     ERR_INVALID_ELEMENT_ID} :
           \E element \in BindTargets, state \in PathStates(World),
              property \in PathProperties :
               bind(World, element, state, property).err.code = code

C18_ThrowingWatcherAbortsWrite ==
    \A state \in Proxies(World), key \in Keys, value \in {Str("a"), Str("b")} :
        LET out == proxy_handlers_set(World, state, key, value)
            orig_value == Get(World, state, key)
            watchers == WatchersOf(World, state, key)
        IN  (\E i \in 1..Len(watchers) : WatcherThrows(watchers[i], orig_value, value)) =>
                /\ out.err = WatcherError
                /\ Get(out.M, state, key) = orig_value
                /\ out.M.store = World.store
                /\ out.M.effects = <<>>
                /\ out.M.dom = World.dom

\* A write whose first watcher returned null and whose second watcher threw
\* has left the value and the bound element as they were.
C18_Witness ==
    /\ last.op = "set" /\ last.err = WatcherError
    /\ Len(last.calls) = 2 /\ last.calls[1].returned = Null
    /\ last.calls[2].watcher = "throws"
    /\ last.orig_value # Null /\ last.value # last.orig_value
    /\ Get(World, last.state, last.property) = last.orig_value
    /\ last.effects = <<>>
    /\ \E t \in Bindings(World, last.state, last.property) :
           Shown(dom, t) = ToDOMString(last.orig_value)

(***************************************************************************)
(* C19.  An edit of an input element bound to (W, k) does what the write   *)
(* W[k] = element.value does: the same watchers are called with the same   *)
(* arguments, the same value is committed, and every element bound to      *)
(* (W, k), the edited one included, is rendered with the committed value   *)
(* and shows it.                                                           *)
(***************************************************************************)
C19_EditWritesThroughProxy ==
    \A t \in InputElements, text \in {"a", "b"} :
        Bound(World, t) =>
            LET W == World.element_lookup[t].reactive_target
                k == World.element_lookup[t].reactive_key
                typed == [World EXCEPT !.dom[t].value = text]
                direct == proxy_handlers_set(typed, W, k, Str(text))
                edit == input_event(World, t, text)
                committed == Get(edit.M, W, k)
            IN  /\ edit.err = direct.err
                /\ edit.calls = direct.calls
                /\ edit.M = direct.M
                /\ edit.err = NoError =>
                       /\ Len(edit.calls) = Len(WatchersOf(World, W, k))
                       /\ \A i \in 1..Len(edit.calls) :
                              /\ edit.calls[i].watcher = WatchersOf(World, W, k)[i]
                              /\ edit.calls[i].new_value = Str(text)
                       /\ committed = edit.new_value
                       /\ \A u \in Bindings(World, W, k) :
                              /\ RenderedTo(edit.M.effects, u) = <<Rendering(u, committed)>>
                              /\ Shown(edit.M.dom, u) = ToDOMString(committed)

\* An edit that the only watcher rejected has rendered the prior value to
\* both bound elements: the edited element shows the prior value again.
C19_Witness ==
    /\ last.op = "input" /\ last.err = NoError /\ last.value = Str("b")
    /\ Len(last.calls) = 1 /\ last.calls[1].returned = REJECT_CHANGE
    /\ last.calls[1].new_value = Str("b")
    /\ last.orig_value # Str("b")
    /\ Bindings(World, Proxy(1), "foo") = Elements
    /\ Get(World, Proxy(1), "foo") = last.orig_value
    /\ \A u \in Elements :
           /\ RenderedTo(last.effects, u) = <<Rendering(u, last.orig_value)>>
           /\ Shown(dom, u) = ToDOMString(last.orig_value)

(***************************************************************************)
(* C20.  After unbind(t) on an input element, an edit of t writes nothing: *)
(* no watcher is called, no element is rendered, and every stored value,   *)
(* binding set and watcher list is as the unbind left it; only the edited  *)
(* element shows the typed text.                                           *)
(***************************************************************************)
C20_NoWriteOnEditAfterUnbind ==
    \A element \in TestElements, text \in {"a", "b"} :
        element.s \in InputElements =>
            LET unbound == unbind(World, element)
                edit == input_event(unbound.M, element.s, text)
            IN  /\ unbound.err = NoError
                /\ unbound.M.listeners[element.s] = {}
                /\ edit.err = NoError
                /\ edit.calls = <<>>
                /\ edit.M = [unbound.M EXCEPT !.dom[element.s].value = text]

\* An edit of the unbound input element has left the watched property, and
\* the other element bound to it, as they were.
C20_Witness ==
    /\ last.op = "input" /\ last.element = El("input")
    /\ last.calls = <<>> /\ last.effects = <<>>
    /\ Unbound(World, "input")
    /\ dom["input"].value = "b"
    /\ Get(World, Proxy(1), "foo") # Str("b")
    /\ WatchersOf(World, Proxy(1), "foo") # <<>>
    /\ "div" \in Bindings(World, Proxy(1), "foo")
    /\ Shown(dom, "div") = ToDOMString(Get(World, Proxy(1), "foo"))

\* The number of calls of the watcher callback among calls.
CallsOf(calls, callback) ==
    Cardinality({i \in 1..Len(calls) : calls[i].watcher = callback})

(***************************************************************************)
(* C21.  watch() makes no duplicate check: registering a watcher once more *)
(* on (W, k), already registered there or not, makes it run once more on   *)
(* each write to (W, k), and every watcher registered before runs as often *)
(* as it did.                                                              *)
(***************************************************************************)
C21_EveryRegistrationRuns ==
    \A state \in Proxies(World), key \in Keys, callback \in Callbacks :
        LET before == proxy_handlers_set(World, state, key, Str("a"))
            registered == watch(World, state, key, callback)
            after == proxy_handlers_set(registered.M, state, key, Str("a"))
        IN  /\ registered.err = NoError
            /\ after.err = NoError
            /\ \A other \in Callbacks :
                   CallsOf(after.calls, other) =
                       CallsOf(before.calls, other) + (IF other = callback THEN 1 ELSE 0)

(***************************************************************************)
(* C22.  In every reachable state each element is a member of at most one  *)
(* binding set, over all Proxies and keys, and an element that is a member *)
(* of the binding set of (W, k) has a binding record that names W and k.   *)
(***************************************************************************)
C22_OneBindingPerElement ==
    \A t \in Elements :
        \A o \in Objs, key \in Keys :
            t \in proxy_to_bindings_map[o].props[key].bindings =>
                /\ proxy_to_bindings_map[o].has
                /\ element_lookup[t].has
                /\ element_lookup[t].reactive_target = Proxy(o)
                /\ element_lookup[t].reactive_key = key
                /\ \A o2 \in Objs, key2 \in Keys :
                       t \in proxy_to_bindings_map[o2].props[key2].bindings =>
                           (o2 = o /\ key2 = key)

\* After a bind, an unbind, a refused second bind and a write, the two
\* elements are bound to different properties of different Proxies.
C22_Witness ==
    /\ last.op = "bind" /\ last.err = panic(ERR_DUPLICATE_BINDING, "")
    /\ Bound(World, "div") /\ Bound(World, "input")
    /\ element_lookup["div"].reactive_target # element_lookup["input"].reactive_target
    /\ element_lookup["div"].reactive_key # element_lookup["input"].reactive_key
    /\ \E o \in Objs : store[o]["foo"] = Str("a")

\* The position of the first event of an operation that renders an element,
\* and of the event that stores the value (0: there is none).
FirstRender(effects) ==
    IF \E i \in 1..Len(effects) : effects[i].ev = "render"
    THEN CHOOSE i \in 1..Len(effects) :
             /\ effects[i].ev = "render"
             /\ \A j \in 1..(i - 1) : effects[j].ev # "render"
    ELSE 0
StoreEvent(effects) ==
    IF \E i \in 1..Len(effects) : effects[i].ev = "store"
    THEN CHOOSE i \in 1..Len(effects) : effects[i].ev = "store"
    ELSE 0

(***************************************************************************)
(* C23.  A write stores the committed value before it renders any bound    *)
(* element: when an element is rendered by the write W[k] = v, W[k] holds  *)
(* the committed value already.                                            *)
(***************************************************************************)
C23_StoredBeforeRendered ==
    (last.op = "set" /\ last.err = NoError /\ FirstRender(last.effects) > 0) =>
        /\ StoreEvent(last.effects) > 0
        /\ StoreEvent(last.effects) < FirstRender(last.effects)

(***************************************************************************)
(* C24.  On a write to (W, k) the watchers of (W, k) are called in the     *)
(* order of their registration, a watcher registered now after the ones    *)
(* registered before, and each is called with the value W[k] held before   *)
(* the write as old value, whatever the watchers before it returned.       *)
(***************************************************************************)
C24_WatchersRunInRegistrationOrder ==
    \A state \in Proxies(World), key \in {"foo", "x"} :
        LET watchers == WatchersOf(World, state, key)
        IN  /\ \A value \in TestValues :
                   LET out == proxy_handlers_set(World, state, key, value)
                   IN  /\ Len(out.calls) = Len(watchers)
                       /\ \A i \in 1..Len(watchers) :
                              /\ out.calls[i].watcher = watchers[i]
                              /\ out.calls[i].orig_value = Get(World, state, key)
            /\ \A callback \in Callbacks :
                   (\A i \in 1..Len(watchers) : watchers[i] # callback) =>
                       LET registered == watch(World, state, key, callback).M
                           later == proxy_handlers_set(registered, state, key, Str("b"))
                       IN  /\ Len(later.calls) = Len(watchers) + 1
                           /\ later.calls[Len(watchers) + 1].watcher = callback
                           /\ later.calls[Len(watchers) + 1].orig_value =
                                  Get(World, state, key)
                           /\ \A i \in 1..Len(watchers) :
                                  later.calls[i].watcher = watchers[i]

\* A write whose first watcher rejected the value has called the second
\* watcher, registered later, with the same old value.
C24_Witness ==
    /\ last.op = "set" /\ last.err = NoError /\ Len(last.calls) = 2
    /\ last.calls[1].watcher = "reject_b" /\ last.calls[1].returned = REJECT_CHANGE
    /\ last.calls[2].watcher = "falsy"
    /\ WatchersOf(World, last.state, last.property) = <<"reject_b", "falsy">>
    /\ last.calls[1].orig_value = last.orig_value
    /\ last.calls[2].orig_value = last.orig_value
    /\ last.orig_value # last.value

(***************************************************************************)
(* C25.  A write through a Proxy that no watcher aborts by throwing reports *)
(* success and leaves a value stored under the key: the value written, or  *)
(* the one the watchers decided.  This holds for a key that was never      *)
(* bound or watched, which gets its registry entry by the write, and for a *)
(* write a watcher rejects, which raises no error.                         *)
(***************************************************************************)
C25_WriteReportsSuccess ==
    \A state \in Proxies(World), key \in Keys, value \in TestValues :
        LET out == proxy_handlers_set(World, state, key, value)
        IN  out.err # WatcherError =>
                /\ out.err = NoError
                /\ hasOwnProperty(out.M, state, key)
                /\ Get(out.M, state, key) = out.new_value
                /\ out.new_value \in
                       {value, out.orig_value} \cup
                       {out.calls[i].returned : i \in 1..Len(out.calls)}
                /\ out.M.proxy_to_bindings_map[state.n].props[key].has

\* The first write to a property that was never bound or watched has
\* stored the value written.
C25_Witness ==
    /\ last.op = "set" /\ last.err = NoError /\ last.calls = <<>>
    /\ \A t \in Elements : ~element_lookup[t].has
    /\ WatchersOf(World, last.state, last.property) = <<>>
    /\ proxy_to_bindings_map[last.state.n].props[last.property].has
    /\ Get(World, last.state, last.property) = last.value
    /\ last.orig_value # last.value

\* The properties bind() is tried with for a leaf that may be missing.
LeafProperties == {"foo", "x", "nested.x", "nested.nested.x"}

(***************************************************************************)
(* C26.  A path is resolved without a check of its last segment: bind with *)
(* a resolvable path whose leaf is no own property of the reactive         *)
(* container succeeds, renders undefined to the element and stores         *)
(* nothing; a later write that creates the leaf renders its value to the   *)
(* element.                                                                *)
(***************************************************************************)
C26_BindOnAbsentLeaf ==
    \A t \in Elements, state \in Proxies(World), property \in LeafProperties :
        LET parts == split(property)
            owner == Container(World, state, parts, 1)
            leaf == parts[Len(parts)]
        IN  (/\ ~World.element_lookup[t].has
             /\ Bindable(World, state, property)
             /\ ~hasOwnProperty(World, owner, leaf)) =>
                LET out == bind(World, El(t), state, property)
                    bound == [out.M EXCEPT !.effects = <<>>]
                    write == proxy_handlers_set(bound, owner, leaf, Str("c"))
                IN  /\ out.err = NoError
                    /\ out.M.effects = <<Rendering(t, Undefined)>>
                    /\ Shown(out.M.dom, t) = "undefined"
                    /\ out.M.store = World.store
                    /\ t \in Bindings(out.M, owner, leaf)
                    /\ write.err = NoError
                    /\ hasOwnProperty(write.M, owner, leaf)
                    /\ RenderedTo(write.M.effects, t) = <<Rendering(t, Str("c"))>>
                    /\ Shown(write.M.dom, t) = "c"

\* An element bound to a property its container did not have shows the
\* value a later write has created the property with.
C26_Witness ==
    /\ last.op = "set" /\ last.err = NoError /\ last.orig_value = Undefined
    /\ \E t \in Elements :
           /\ t \in Bindings(World, last.state, last.property)
           /\ RenderedTo(last.effects, t) = <<Rendering(t, last.new_value)>>
           /\ Shown(dom, t) = "a"

\* The descriptive name of the type of a value that is no element: 'null'
\* for null, the name of the constructor for an object, the typeof name
\* for anything else.
TypeName(value) ==
    CASE value.k = "null" -> "null"
      [] value.k = "undefined" -> "undefined"
      [] value.k = "string" -> "string"
      [] value = PlainObject -> "Object"
      [] OTHER -> value.k

(***************************************************************************)
(* C27.  The ERR_UNSUPPORTED_BIND error of a bind whose handle is no       *)
(* element carries the descriptive name of the type of the handle that was *)
(* rejected.                                                               *)
(***************************************************************************)
C27_UnsupportedBindNamesType ==
    (last.op = "bind" /\ last.err # NoError /\ last.err.code = ERR_UNSUPPORTED_BIND) =>
        last.err.param = TypeName(last.element)

\* Every member of a binding set shows the value stored under the property
\* of the set.
Displayed(M) ==
    \A o \in Objs, key \in Keys, t \in Elements :
        t \in M.proxy_to_bindings_map[o].props[key].bindings =>
            Shown(M.dom, t) = ToDOMString(Get(M, Raw(o), key))

\* The member t of the binding set of (Proxy(o), key) is an editable element
\* that shows the text of a user edit, and a watcher of the property throws:
\* the write of the edit was aborted.
ShowsAbortedEdit(M, o, key, t) ==
    /\ t \in InputElements
    /\ M.dom[t].value = "b"
    /\ \E i \in 1..Len(M.proxy_to_bindings_map[o].props[key].watchers) :
           WatcherThrows(M.proxy_to_bindings_map[o].props[key].watchers[i],
                         Get(M, Raw(o), key), Str("b"))

(***************************************************************************)
(* C28.  In every reachable state, whatever sequence of reactive, bind,    *)
(* unbind, watch, writes (rejected, replaced or aborted by a throwing      *)
(* watcher) and user edits led to it, every element bound to (W, k) shows  *)
(* the value stored at W[k].                                               *)
(***************************************************************************)
C28_BoundShowsStored == Displayed(World)

(***************************************************************************)
(* C28, amended.  Every element bound to (W, k) shows the value stored at  *)
(* W[k], except an editable element whose user edit a throwing watcher of  *)
(* (W, k) aborted: it shows the text of the edit, and W[k] keeps its       *)
(* value.  From a state where every bound element shows the stored value,  *)
(* every bind, unbind, watch, write (completed or aborted) and every edit  *)
(* that no watcher aborts leads to such a state again.                     *)
(***************************************************************************)
C28_BoundShowsStoredUnlessEditAborted ==
    /\ \A o \in Objs, key \in Keys, t \in Elements :
           t \in proxy_to_bindings_map[o].props[key].bindings =>
               \/ Shown(dom, t) = ToDOMString(Get(World, Raw(o), key))
               \/ ShowsAbortedEdit(World, o, key, t)
    /\ Displayed(World) =>
           /\ \A state \in Proxies(World), value \in TestValues :
                  Displayed(proxy_handlers_set(World, state, "foo", value).M)
           /\ \A state \in Proxies(World), callback \in EditCallbacks :
                  Displayed(watch(World, state, "foo", callback).M)
           /\ \A t \in Elements :
                  /\ Displayed(unbind(World, El(t)).M)
                  /\ \A state \in Proxies(World) :
                         Displayed(bind(World, El(t), state, "foo").M)
                  /\ LET edit == input_event(World, t, "b")
                     IN  \/ Displayed(edit.M)
                         \/ /\ edit.err = WatcherError
                            /\ edit.M.store = World.store
                            /\ t \in InputElements
                            /\ Shown(edit.M.dom, t) = "b"

\* A user edit of the bound input was aborted by a throwing watcher: the
\* input shows the text of the edit, the property keeps its value and the
\* other bound element shows it.
C28_Witness ==
    /\ last.op = "input" /\ last.err = WatcherError
    /\ Bound(World, "input") /\ Bound(World, "div")
    /\ element_lookup["input"].reactive_target = element_lookup["div"].reactive_target
    /\ Shown(dom, "input") = "b"
    /\ Get(World, element_lookup["input"].reactive_target, "foo") = Str("a")
    /\ Shown(dom, "div") = "a"

(***************************************************************************)
(* C29.  A binding and a watcher registered through the path 'nested.x'    *)
(* are attached to the Proxy state.nested held when they were registered.  *)
(* After state.nested = new_obj, with new_obj an object built later,       *)
(* wrapped by reactive() or not, a write of x through the new state.nested *)
(* calls no watcher and renders no element; a write of x through the old   *)
(* Proxy calls the watcher and renders the element.                        *)
(***************************************************************************)
C29_RegisteredOnWrapperHeld ==
    \A state \in Proxies(World), t \in Elements, wrapped \in BOOLEAN :
        LET old == Get(World, state, "nested")
        IN  (/\ old \in Proxies(World)
             /\ ~World.element_lookup[t].has
             /\ nobjs + Len(LitLeaf) <= MaxObjs) =>
                LET watched == watch(World, state, "nested.x", "to_null")
                    bound == bind(watched.M, El(t), state, "nested.x")
                    built == Allocate([bound.M EXCEPT !.effects = <<>>], LitLeaf)
                    new_obj == IF wrapped THEN Proxy(nobjs + 1) ELSE Raw(nobjs + 1)
                    replaced == proxy_handlers_set(
                                    IF wrapped THEN reactive(built, Raw(nobjs + 1))
                                    ELSE built,
                                    state, "nested", new_obj)
                    R == [replaced.M EXCEPT !.effects = <<>>]
                    holder == Get(R, state, "nested")
                    through_new == assign(R, holder, "x", Str("c"))
                    through_old == assign(R, old, "x", Str("c"))
                IN  /\ watched.err = NoError /\ bound.err = NoError
                    /\ replaced.err = NoError
                    /\ holder = new_obj /\ holder # old
                    /\ t \in Bindings(R, old, "x")
                    /\ through_new.err = NoError
                    /\ through_new.calls = <<>>
                    /\ RenderedTo(through_new.M.effects, t) = <<>>
                    /\ through_new.M.dom = R.dom
                    /\ Get(through_new.M, holder, "x") = Str("c")
                    /\ through_old.err = NoError
                    /\ \E i \in 1..Len(through_old.calls) :
                           through_old.calls[i].watcher = "to_null"
                    /\ RenderedTo(through_old.M.effects, t) =
                           <<Rendering(t, through_old.new_value)>>
                    /\ Get(through_old.M, holder, "x") = Zero

\* state.nested was replaced by a Proxy built later and x was written
\* through it: the watcher and the element registered through 'nested.x'
\* before are still with the old Proxy, and the write has called and
\* rendered nothing.
C29_Witness ==
    /\ last.op = "set" /\ last.err = NoError
    /\ last.state = Proxy(3) /\ last.property = "x"
    /\ Get(World, Proxy(1), "nested") = Proxy(3)
    /\ WatchersOf(World, Proxy(2), "x") # <<>>
    /\ WatchersOf(World, Proxy(3), "x") = <<>>
    /\ "div" \in Bindings(World, Proxy(2), "x")
    /\ last.calls = <<>> /\ last.effects = <<Storing(3, "x", Str("a"))>>
    /\ Shown(dom, "div") = "0"
    /\ Get(World, Proxy(3), "x") = Str("a")

\* The Proxies a caller or vaka holds: the values of properties, the state
\* the last operation returned or was given, the targets of the binding
\* records and of the input listeners.
HeldProxies(M, op) ==
    {p \in {Proxy(o) : o \in 1..M.nobjs} :
        \/ \E o \in 1..M.nobjs, key \in Keys : M.store[o][key] = p
        \/ op.state = p
        \/ \E t \in Elements :
               \/ M.element_lookup[t].has /\ M.element_lookup[t].reactive_target = p
               \/ \E callback \in M.listeners[t] : callback.base_state = p}

BadProxy == panic(ERR_BAD_PROXY, "")

(***************************************************************************)
(* C30.  ERR_BAD_PROXY is unreachable: every Proxy made by reactive(), at  *)
(* any depth of nesting, has a registry in every reachable state; bind,    *)
(* unbind, watch and writes through Proxies remove none; and neither a     *)
(* write through a Proxy nor the write of an input listener runs the set   *)
(* trap on a receiver without registry.                                    *)
(***************************************************************************)
C30_BadProxyUnreachable ==
    /\ last.err # BadProxy
    /\ \A p \in HeldProxies(World, last) :
           /\ state_meta_of(World, p).has
           /\ \A key \in Keys :
                  LET write == proxy_handlers_set(World, p, key, Str("c"))
                      watched == watch(World, p, key, "log")
                  IN  /\ write.err # BadProxy
                      /\ watched.err # BadProxy
                      /\ \A q \in HeldProxies(World, last) :
                             /\ state_meta_of(write.M, q).has
                             /\ state_meta_of(watched.M, q).has
           /\ \A t \in Elements :
                  LET bound == bind(World, El(t), p, "nested.x")
                      unbound == unbind(World, El(t))
                      edit == input_event(World, t, "b")
                  IN  /\ bound.err # BadProxy
                      /\ unbound.err # BadProxy
                      /\ edit.err # BadProxy
                      /\ \A q \in HeldProxies(World, last) :
                             /\ state_meta_of(bound.M, q).has
                             /\ state_meta_of(unbound.M, q).has
                             /\ state_meta_of(edit.M, q).has

\* In a state nested two levels deep every Proxy has its registry, the
\* input is bound to the innermost and a write through the root has
\* completed.
C30_Witness ==
    /\ last.op = "set" /\ last.err = NoError /\ last.state = Proxy(1)
    /\ HeldProxies(World, last) = {Proxy(1), Proxy(2), Proxy(3)}
    /\ \A o \in 1..3 : proxy_to_bindings_map[o].has
    /\ element_lookup["input"].reactive_target = Proxy(3)
    /\ \E callback \in listeners["input"] : callback.base_state = Proxy(3)

====
